---- MODULE Spec2Model ----
(***************************************************************************)
(* Model of App/streamlit_app.py: a Streamlit script (main) that builds a  *)
(* DemandForecaster around a Keras model loaded through st.cache_resource, *)
(* collects one input row from the sidebar widgets and, when the           *)
(* "Run Forecast" button fired, calls predict and renders the two rounded  *)
(* outputs.  Every browser session runs main in its own script thread of   *)
(* the one server process; the st.cache_resource cache of _load_model is   *)
(* shared by all of them.                                                  *)
(*                                                                         *)
(* Continuous model outputs are fixed-point numbers in units of 1/Scale.   *)
(***************************************************************************)
EXTENDS Integers, Sequences, FiniteSets, TLC

\* ------------------------------------------------------------------ bounds

\* Script runs (reruns included) a session may start.
MaxRuns == 4

\* DemandForecaster(path) constructions an importing thread may make.
MaxCalls == 3

\* ------------------------------------------------------- program constants

\* MODEL_PATH (line 7); OTHER_PATH stands for any other path string.
MODEL_PATH == "MODEL_PATH"

OTHER_PATH == "OTHER_PATH"

Paths == {MODEL_PATH, OTHER_PATH}

\* Script threads of browser sessions, all in one server process.
Sessions == {"s1", "s2"}

\* Threads of code that imports the module and constructs DemandForecaster itself.
Clients == {"c1", "c2"}

Procs == Sessions \cup Clients

\* Resolution of a continuous model output: a value v stands for v / Scale.
Scale == 4

\* --------------------------------------------------------------- the rows

\* The single-row DataFrames create_sidebar_inputs can return (lines 116-122).
\* Price is in cents, UnitsSold_Price in steps of 0.5 (0..20 for 0.0..10.0).
RowNames == {"default", "example", "extreme"}

NoRow == "none"

Fields(r) ==
    CASE r = "default" ->
           [InventoryLevel |-> 0, Price |-> 0, Seasonality_Summer |-> 0,
            Inventory_Demand |-> 0, UnitsSold_Price |-> 0]
      [] r = "example" ->
           [InventoryLevel |-> 100, Price |-> 999, Seasonality_Summer |-> 1,
            Inventory_Demand |-> 50, UnitsSold_Price |-> 7]
      [] r = "extreme" ->
           [InventoryLevel |-> 1000000, Price |-> 100000000, Seasonality_Summer |-> 1,
            Inventory_Demand |-> 1000000, UnitsSold_Price |-> 20]

\* The widget constraints of lines 74-114: min_value=0 for the three number
\* inputs, options [0, 1] for the select box, 0.0..10.0 step 0.5 for the slider.
ValidRow(r) ==
    LET f == Fields(r) IN
    /\ f.InventoryLevel >= 0
    /\ f.Price >= 0
    /\ f.Seasonality_Summer \in {0, 1}
    /\ f.Inventory_Demand >= 0
    /\ f.UnitsSold_Price \in 0..20

\* The widgets' initial values (value=0, value=0.0, first option).
DefaultRow == "default"

\* ------------------------------------------------------ the model artifact

\* What the file at a path holds: nothing loadable, or a serialized model.
Missing == "missing"

Artifacts == {"regressor", "overflowing", "single_output"}

Files == Artifacts \cup {Missing}

Fin(q) == [cls |-> "finite", q |-> q]

NaN == [cls |-> "nan", q |-> 0]

Inf == [cls |-> "inf", q |-> 0]

Returned(rows) == [kind |-> "array", rows |-> rows]

\* model.predict(input_data) of line 22 for the model deserialized from
\* artifact a: a deterministic function of the row. "regressor" gives two
\* finite outputs for every row; "overflowing" overflows float32 on the
\* extreme row; "single_output" was trained with one output column; an
\* object that is no such model raises.
Inference(a, r) ==
    LET f == Fields(r)
        u == 2 + 4 * f.Seasonality_Summer + 4 * (f.UnitsSold_Price \div 20)
        d == f.Inventory_Demand + 3 * f.UnitsSold_Price - 6
    IN CASE a = "regressor" -> Returned(<< <<Fin(u), Fin(d)>> >>)
         [] a = "overflowing" ->
              IF f.Price > 1000000
                THEN Returned(<< <<Inf, NaN>> >>)
                ELSE Returned(<< <<Fin(d), Fin(u)>> >>)
         [] a = "single_output" -> Returned(<< <<Fin(u)>> >>)
         [] OTHER -> [kind |-> "raise", rows |-> <<>>]

\* ------------------------------------------------------------- predict

\* Mutant of PyRound: ties rounded up (floor(x + 1/2)).
RoundHalfUp(v) == (2 * v + Scale) \div (2 * Scale)

\* Python's round(x) of a finite float: nearest integer, ties to even.
PyRound(v) ==
    LET q == v \div Scale
        r == v % Scale
    IN IF 2 * r < Scale THEN q
       ELSE IF 2 * r > Scale THEN q + 1
       ELSE IF q % 2 = 0 THEN q ELSE q + 1

NoResult == [status |-> "none", row |-> NoRow, units |-> 0, demand |-> 0, error |-> "none"]

Ok(r, u, d) == [status |-> "ok", row |-> r, units |-> u, demand |-> d, error |-> "none"]

Raised(r, e) == [status |-> "raised", row |-> r, units |-> 0, demand |-> 0, error |-> e]

\* int(round(x)) raises ValueError on NaN and OverflowError on an infinity.
RoundError(x) == IF x.cls = "nan" THEN "ValueError" ELSE "OverflowError"

\* Mutant of Predict: an exception of the inference path is swallowed and a
\* default pair returned in its place.
PredictMasking(a, r) ==
    LET p == Inference(a, r) IN
    IF /\ p.kind = "array"
       /\ Len(p.rows) >= 1
       /\ Len(p.rows[1]) >= 2
       /\ p.rows[1][1].cls = "finite"
       /\ p.rows[1][2].cls = "finite"
      THEN Ok(r, PyRound(p.rows[1][1].q), PyRound(p.rows[1][2].q))
      ELSE Ok(r, 0, 0)

\* DemandForecaster.predict (lines 20-23): the two elements of the first
\* prediction row are indexed, rounded and converted left to right; any
\* exception leaves the function with no value returned.
Predict(a, r) ==
    LET p == Inference(a, r) IN
    IF p.kind # "array" THEN Raised(r, "ModelError")
    ELSE IF Len(p.rows) < 1 THEN Raised(r, "IndexError")
    ELSE LET row == p.rows[1] IN
         IF Len(row) < 1 THEN Raised(r, "IndexError")
         ELSE IF row[1].cls # "finite" THEN Raised(r, RoundError(row[1]))
         ELSE IF Len(row) < 2 THEN Raised(r, "IndexError")
         ELSE IF row[2].cls # "finite" THEN Raised(r, RoundError(row[2]))
         ELSE Ok(r, PyRound(row[1].q), PyRound(row[2].q))

\* ------------------------------------------------------------- the state

VARIABLES
    fs,          \* path -> what the file there holds (never written by the program)
    cache,       \* st.cache_resource's cache of _load_model: key -> handle
    lock,        \* the cache's per-key compute lock: key -> holder
    reads,       \* path -> calls of load_model(path) made so far
    nextId,      \* objects load_model has returned so far (the next one's identity)
    handed,      \* path -> the handles _load_model(path) has returned to callers
    returns,     \* path -> calls of _load_model(path) that returned
    loadErrors,  \* load errors raised so far
    log,         \* every predict call made: model object, row, outcome, caller, its run
    pc,          \* each thread's position in main / in DemandForecaster(path)
    arg,         \* the path argument of the thread's DemandForecaster call
    forecaster,  \* the thread's forecaster.model of this run
    widgets,     \* the session's sidebar widget values
    clicked,     \* whether "Run Forecast" fired for this run
    input_data,  \* the row collected by this run
    result,      \* what predict did in this run
    shown,       \* elements this run has rendered
    predicts,    \* predict calls of this run
    runs         \* script runs (sessions) or constructions (client) started

shared == <<fs, cache, lock, reads, nextId, handed, returns, loadErrors, log>>

local == <<pc, arg, forecaster, widgets, clicked, input_data, result, shown, predicts, runs>>

vars == <<shared, local>>

NoHandle == [id |-> 0, path |-> "none", artifact |-> Missing]

Free == "free"

Limit(s) == IF s \in Clients THEN MaxCalls ELSE MaxRuns

InitLocal ==
    /\ pc = [s \in Procs |-> "idle"]
    /\ arg = [s \in Procs |-> MODEL_PATH]
    /\ forecaster = [s \in Procs |-> NoHandle]
    /\ widgets = [s \in Procs |-> DefaultRow]
    /\ clicked = [s \in Procs |-> FALSE]
    /\ input_data = [s \in Procs |-> NoRow]
    /\ result = [s \in Procs |-> NoResult]
    /\ shown = [s \in Procs |-> {}]
    /\ predicts = [s \in Procs |-> 0]
    /\ runs = [s \in Procs |-> 0]

InitShared ==
    /\ cache = [k \in Paths |-> NoHandle]
    /\ lock = [k \in Paths |-> Free]
    /\ reads = [p \in Paths |-> 0]
    /\ nextId = 1
    /\ handed = [p \in Paths |-> {}]
    /\ returns = [p \in Paths |-> 0]
    /\ loadErrors = 0
    /\ log = {}

\* A fresh server process. Only MODEL_PATH is ever read by main.
Init ==
    /\ fs \in {f \in [Paths -> Files] : f[OTHER_PATH] = Missing}
    /\ InitShared
    /\ InitLocal

\* The same, with any file at the other path too.
InitApi ==
    /\ fs \in [Paths -> Files]
    /\ InitShared
    /\ InitLocal

\* ------------------------------------------------ st.cache_resource

\* Mutant of CacheKey: one entry whatever the path.
CacheKeyIgnoringPath(path) == MODEL_PATH

\* The cache key of a _load_model call: the hash of its arguments, leaving
\* out those whose name starts with an underscore (_self); that is, the path.
CacheKey(path) == path

\* Mutant of CacheHit: nothing is ever found in the cache.
CacheNeverHits(key) == FALSE

CacheHit(key) == cache[key] # NoHandle

\* Mutant of LockFree: no thread ever waits for the compute lock.
LockAlwaysFree(key) == TRUE

LockFree(key) == lock[key] = Free

\* self.model = <handle> (line 13): the constructor returns to its caller.
Return(s, h) ==
    /\ forecaster' = [forecaster EXCEPT ![s] = h]
    /\ handed' = [handed EXCEPT ![arg[s]] = @ \cup {h}]
    /\ returns' = [returns EXCEPT ![arg[s]] = @ + 1]
    /\ pc' = [pc EXCEPT ![s] = IF s \in Clients THEN "returned" ELSE "inputs"]

\* The cached function is called: a first read of the cache, without the lock.
Lookup(s) ==
    /\ pc[s] = "lookup"
    /\ IF CacheHit(CacheKey(arg[s]))
         THEN Return(s, cache[CacheKey(arg[s])])
         ELSE /\ pc' = [pc EXCEPT ![s] = "acquire"]
              /\ UNCHANGED <<forecaster, handed, returns>>
    /\ UNCHANGED <<fs, cache, lock, reads, nextId, loadErrors, log>>
    /\ UNCHANGED <<arg, widgets, clicked, input_data, result, shown, predicts, runs>>

\* A miss: the thread takes the key's compute lock, waiting while it is held.
Acquire(s) ==
    /\ pc[s] = "acquire"
    /\ LockFree(CacheKey(arg[s]))
    /\ lock' = [lock EXCEPT ![CacheKey(arg[s])] = s]
    /\ pc' = [pc EXCEPT ![s] = "recheck"]
    /\ UNCHANGED <<fs, cache, reads, nextId, handed, returns, loadErrors, log>>
    /\ UNCHANGED <<arg, forecaster, widgets, clicked, input_data, result, shown, predicts, runs>>

\* Under the lock the cache is read again: another thread may have computed
\* the value while this one waited.
Recheck(s) ==
    /\ pc[s] = "recheck"
    /\ IF CacheHit(CacheKey(arg[s]))
         THEN /\ Return(s, cache[CacheKey(arg[s])])
              /\ lock' = [lock EXCEPT ![CacheKey(arg[s])] = Free]
         ELSE /\ pc' = [pc EXCEPT ![s] = "load"]
              /\ UNCHANGED <<forecaster, handed, returns, lock>>
    /\ UNCHANGED <<fs, cache, reads, nextId, loadErrors, log>>
    /\ UNCHANGED <<arg, widgets, clicked, input_data, result, shown, predicts, runs>>

\* load_model(path) (line 18) returns a new model object: it is written to
\* the cache, the lock is released and the object returned.
LoadOk(s) ==
    /\ pc[s] = "load"
    /\ fs[arg[s]] # Missing
    /\ LET h == [id |-> nextId, path |-> arg[s], artifact |-> fs[arg[s]]] IN
       /\ cache' = [cache EXCEPT ![CacheKey(arg[s])] = h]
       /\ Return(s, h)
    /\ reads' = [reads EXCEPT ![arg[s]] = @ + 1]
    /\ nextId' = nextId + 1
    /\ lock' = [lock EXCEPT ![CacheKey(arg[s])] = Free]
    /\ UNCHANGED <<fs, loadErrors, log>>
    /\ UNCHANGED <<arg, widgets, clicked, input_data, result, shown, predicts, runs>>

\* Mutant of LoadFail: the failure is swallowed, a handle without a model is
\* cached and returned, and the caller goes on.
LoadFailCaching(s) ==
    /\ pc[s] = "load"
    /\ fs[arg[s]] = Missing
    /\ LET h == [id |-> nextId, path |-> arg[s], artifact |-> Missing] IN
       /\ cache' = [cache EXCEPT ![CacheKey(arg[s])] = h]
       /\ Return(s, h)
    /\ reads' = [reads EXCEPT ![arg[s]] = @ + 1]
    /\ nextId' = nextId + 1
    /\ loadErrors' = loadErrors + 1
    /\ lock' = [lock EXCEPT ![CacheKey(arg[s])] = Free]
    /\ UNCHANGED <<fs, log>>
    /\ UNCHANGED <<arg, widgets, clicked, input_data, result, shown, predicts, runs>>

\* load_model(path) raises: the exception leaves the cached function (the
\* lock is released, nothing is written), __init__ and main; the script
\* runner shows it and the run is over.
LoadFail(s) ==
    /\ pc[s] = "load"
    /\ fs[arg[s]] = Missing
    /\ reads' = [reads EXCEPT ![arg[s]] = @ + 1]
    /\ loadErrors' = loadErrors + 1
    /\ lock' = [lock EXCEPT ![CacheKey(arg[s])] = Free]
    /\ pc' = [pc EXCEPT ![s] = IF s \in Clients THEN "raised" ELSE "halted"]
    /\ shown' = [shown EXCEPT ![s] = IF s \in Clients THEN @ ELSE @ \cup {"exception"}]
    /\ UNCHANGED <<fs, cache, nextId, handed, returns, log>>
    /\ UNCHANGED <<arg, forecaster, widgets, clicked, input_data, result, predicts>>
    /\ UNCHANGED runs

\* ------------------------------------------------------------- main

\* Mutant of BeginRun: the previous run's forecast output is kept (as if it
\* were stored in the session state).
BeginRunKeepingOutput(s, row, click) ==
    /\ runs[s] < Limit(s)
    /\ runs' = [runs EXCEPT ![s] = @ + 1]
    /\ widgets' = [widgets EXCEPT ![s] = row]
    /\ clicked' = [clicked EXCEPT ![s] = click]
    /\ arg' = [arg EXCEPT ![s] = MODEL_PATH]
    /\ forecaster' = [forecaster EXCEPT ![s] = NoHandle]
    /\ input_data' = [input_data EXCEPT ![s] = NoRow]
    /\ shown' = [shown EXCEPT ![s] = @ \cap {"success", "metrics"}]
    /\ predicts' = [predicts EXCEPT ![s] = 0]
    /\ pc' = [pc EXCEPT ![s] = "lookup"]
    /\ UNCHANGED result
    /\ UNCHANGED shared

\* What every script run starts from: main's locals are new, nothing of the
\* previous run's output is kept, and line 196 constructs
\* DemandForecaster(MODEL_PATH). (setup_page, lines 25-63, only styles.)
BeginRun(s, row, click) ==
    /\ runs[s] < Limit(s)
    /\ runs' = [runs EXCEPT ![s] = @ + 1]
    /\ widgets' = [widgets EXCEPT ![s] = row]
    /\ clicked' = [clicked EXCEPT ![s] = click]
    /\ arg' = [arg EXCEPT ![s] = MODEL_PATH]
    /\ forecaster' = [forecaster EXCEPT ![s] = NoHandle]
    /\ input_data' = [input_data EXCEPT ![s] = NoRow]
    /\ result' = [result EXCEPT ![s] = NoResult]
    /\ shown' = [shown EXCEPT ![s] = {}]
    /\ predicts' = [predicts EXCEPT ![s] = 0]
    /\ pc' = [pc EXCEPT ![s] = "lookup"]
    /\ UNCHANGED shared

\* The page is opened, or rerun from the menu: the widgets keep their values.
\* A session's runs follow one another: an interaction starts the next run
\* once the current one is over.
RunScript(s) ==
    /\ s \in Sessions
    /\ pc[s] \in {"idle", "done", "halted", "crashed"}
    /\ BeginRun(s, widgets[s], FALSE)

\* The user changes sidebar widgets (they were rendered): a rerun.
ChangeWidget(s, row) ==
    /\ s \in Sessions
    /\ pc[s] \in {"done", "crashed"}
    /\ row # widgets[s]
    /\ BeginRun(s, row, FALSE)

\* The user presses "Run Forecast" (it was rendered): a rerun in which
\* st.button returns True.
ClickRun(s) ==
    /\ s \in Sessions
    /\ pc[s] \in {"done", "crashed"}
    /\ BeginRun(s, widgets[s], TRUE)

\* create_sidebar_inputs (lines 65-122): the row is built from the widgets.
CreateSidebarInputs(s) ==
    /\ pc[s] = "inputs"
    /\ input_data' = [input_data EXCEPT ![s] = widgets[s]]
    /\ shown' = [shown EXCEPT ![s] = @ \cup {"sidebar"}]
    /\ pc' = [pc EXCEPT ![s] = "forecast"]
    /\ UNCHANGED shared
    /\ UNCHANGED <<arg, forecaster, widgets, clicked, result, predicts, runs>>

\* display_forecast_results when the button did not fire (line 129 is false).
NoForecast(s) ==
    /\ pc[s] = "forecast"
    /\ ~clicked[s]
    /\ shown' = [shown EXCEPT ![s] = @ \cup {"button"}]
    /\ pc' = [pc EXCEPT ![s] = "inputtab"]
    /\ UNCHANGED shared
    /\ UNCHANGED <<arg, forecaster, widgets, clicked, input_data, result, predicts, runs>>

\* Mutant of RunForecast: the exception of predict is caught and ignored, and
\* the success path goes on.
RunForecastSwallowing(s) ==
    /\ pc[s] = "forecast"
    /\ clicked[s]
    /\ LET out == Predict(forecaster[s].artifact, input_data[s]) IN
       /\ result' = [result EXCEPT ![s] = out]
       /\ log' = log \cup {[model |-> forecaster[s], row |-> input_data[s], out |-> out,
                             by |-> s, run |-> runs[s]]}
    /\ pc' = [pc EXCEPT ![s] = "results"]
    /\ shown' = [shown EXCEPT ![s] = @ \cup {"button"}]
    /\ predicts' = [predicts EXCEPT ![s] = @ + 1]
    /\ UNCHANGED <<fs, cache, lock, reads, nextId, handed, returns, loadErrors>>
    /\ UNCHANGED <<arg, forecaster, widgets, clicked, input_data, runs>>

\* Mutant of RunForecast: the outcome of predict drifts with the number of
\* calls made before (hidden state in the inference path).
RunForecastDrifting(s) ==
    /\ pc[s] = "forecast"
    /\ clicked[s]
    /\ LET p == Predict(forecaster[s].artifact, input_data[s])
           out == IF p.status = "ok"
                    THEN Ok(p.row, p.units + Cardinality(log), p.demand)
                    ELSE p
       IN
       /\ result' = [result EXCEPT ![s] = out]
       /\ log' = log \cup {[model |-> forecaster[s], row |-> input_data[s], out |-> out,
                             by |-> s, run |-> runs[s]]}
       /\ IF out.status = "ok"
            THEN /\ pc' = [pc EXCEPT ![s] = "results"]
                 /\ shown' = [shown EXCEPT ![s] = @ \cup {"button"}]
            ELSE /\ pc' = [pc EXCEPT ![s] = "crashed"]
                 /\ shown' = [shown EXCEPT ![s] = @ \cup {"button", "exception"}]
    /\ predicts' = [predicts EXCEPT ![s] = @ + 1]
    /\ UNCHANGED <<fs, cache, lock, reads, nextId, handed, returns, loadErrors>>
    /\ UNCHANGED <<arg, forecaster, widgets, clicked, input_data, runs>>

\* display_forecast_results when it fired: forecaster.predict(data) (line
\* 131). Nothing catches an exception of predict: it leaves main, the script
\* runner shows it in the page and the run is over; the server goes on.
RunForecast(s) ==
    /\ pc[s] = "forecast"
    /\ clicked[s]
    /\ LET out == Predict(forecaster[s].artifact, input_data[s]) IN
       /\ result' = [result EXCEPT ![s] = out]
       /\ log' = log \cup {[model |-> forecaster[s], row |-> input_data[s], out |-> out,
                             by |-> s, run |-> runs[s]]}
       /\ IF out.status = "ok"
            THEN /\ pc' = [pc EXCEPT ![s] = "results"]
                 /\ shown' = [shown EXCEPT ![s] = @ \cup {"button"}]
            ELSE /\ pc' = [pc EXCEPT ![s] = "crashed"]
                 /\ shown' = [shown EXCEPT ![s] = @ \cup {"button", "exception"}]
    /\ predicts' = [predicts EXCEPT ![s] = @ + 1]
    /\ UNCHANGED <<fs, cache, lock, reads, nextId, handed, returns, loadErrors>>
    /\ UNCHANGED <<arg, forecaster, widgets, clicked, input_data, runs>>

\* Lines 133-171: the success message and the two metric cards.
ShowResults(s) ==
    /\ pc[s] = "results"
    /\ shown' = [shown EXCEPT ![s] = @ \cup {"success", "metrics"}]
    /\ pc' = [pc EXCEPT ![s] = "inputtab"]
    /\ UNCHANGED shared
    /\ UNCHANGED <<arg, forecaster, widgets, clicked, input_data, result, predicts, runs>>

\* display_input_data (lines 173-189) and the footer: the run ends.
DisplayInputData(s) ==
    /\ pc[s] = "inputtab"
    /\ shown' = [shown EXCEPT ![s] = @ \cup {"input_table"}]
    /\ pc' = [pc EXCEPT ![s] = "done"]
    /\ UNCHANGED shared
    /\ UNCHANGED <<arg, forecaster, widgets, clicked, input_data, result, predicts, runs>>

\* An importing thread constructs DemandForecaster(path) with a path of its own.
Construct(c, path) ==
    /\ c \in Clients
    /\ pc[c] \in {"idle", "returned", "raised"}
    /\ runs[c] < Limit(c)
    /\ runs' = [runs EXCEPT ![c] = @ + 1]
    /\ arg' = [arg EXCEPT ![c] = path]
    /\ forecaster' = [forecaster EXCEPT ![c] = NoHandle]
    /\ pc' = [pc EXCEPT ![c] = "lookup"]
    /\ UNCHANGED shared
    /\ UNCHANGED <<widgets, clicked, input_data, result, shown, predicts>>

\* ---------------------------------------------------------- specifications

GetModel(s) ==
    \/ Lookup(s)
    \/ Acquire(s)
    \/ Recheck(s)
    \/ LoadOk(s)
    \/ LoadFail(s)

Next ==
    \E s \in Sessions :
        \/ RunScript(s)
        \/ \E row \in RowNames : ChangeWidget(s, row)
        \/ ClickRun(s)
        \/ GetModel(s)
        \/ CreateSidebarInputs(s)
        \/ NoForecast(s)
        \/ RunForecast(s)
        \/ ShowResults(s)
        \/ DisplayInputData(s)

\* The browser sessions of one server process, each running main.
Spec == Init /\ [][Next]_vars

NextApi ==
    \E c \in Clients :
        \/ \E path \in Paths : Construct(c, path)
        \/ GetModel(c)

\* DemandForecaster used on its own: threads of an importing program that
\* construct forecasters for paths of their choice, sharing the one cache.
SpecApi == InitApi /\ [][NextApi]_vars

\* ------------------------------------------------------------ the claims

\* Script runs of session s that are past the DemandForecaster constructor.
PastLoad(s) == IF pc[s] \in {"lookup", "acquire", "recheck", "load"} THEN runs[s] - 1 ELSE runs[s]

\* Model objects load_model has returned so far.
Loads == nextId - 1

\* C1: calls of _load_model with the same path that return all return the one
\* cached handle, and once two of them returned the artifact at that path has
\* been read exactly once.
C1_SamePathOneHandleOneRead ==
    \A p \in Paths :
        returns[p] >= 2 =>
            /\ Cardinality(handed[p]) = 1
            /\ reads[p] = 1
            /\ cache[CacheKey(p)] \in handed[p]

C1_Witness ==
    /\ returns[MODEL_PATH] >= 3
    /\ \E s, t \in Sessions : s # t /\ runs[s] >= 2 /\ forecaster[s] # NoHandle
                               /\ forecaster[t] = forecaster[s]

\* C2 as stated: after a first successful call every later call, whatever its
\* path, returns that same handle, and no file is read again.
C2_AnyPathSameHandle ==
    /\ Cardinality(UNION {handed[p] : p \in Paths}) <= 1
    /\ Loads <= 1

\* C2, amended: the cache is keyed by the path. Calls with the same path get
\* the one handle loaded from that path, read once; a call with another path
\* is a miss that reads that path and gets a handle of its own.
C2_HandlePerPath ==
    /\ \A p \in Paths :
        /\ Cardinality(handed[p]) <= 1
        /\ \A h \in handed[p] : h.path = p /\ h.artifact = fs[p] /\ cache[CacheKey(p)] = h
        /\ handed[p] # {} => reads[p] = 1
    /\ \A p, q \in Paths : p # q => handed[p] \cap handed[q] = {}

C2_Witness ==
    /\ returns[MODEL_PATH] >= 2
    /\ handed[OTHER_PATH] # {}
    /\ \E c \in Clients : arg[c] = OTHER_PATH /\ pc[c] = "returned"
                          /\ forecaster[c] \notin handed[MODEL_PATH]

\* C3: a load that fails changes nothing: the step in which load_model raises
\* leaves the cache, the handles handed out and the object count as they
\* were, releases the lock, gives the caller no forecaster and ends its call
\* with the error.
C3_FailedLoadMutatesNothing ==
    [][\A s \in Procs :
          (pc[s] = "load" /\ fs[arg[s]] = Missing /\ pc'[s] # "load") =>
              /\ cache' = cache
              /\ handed' = handed
              /\ returns' = returns
              /\ nextId' = nextId
              /\ lock'[CacheKey(arg[s])] = Free
              /\ forecaster'[s] = NoHandle
              /\ pc'[s] \in {"halted", "raised"}
              /\ loadErrors' = loadErrors + 1]_vars

C3_Witness ==
    \E s \in Sessions :
        /\ pc[s] = "halted"
        /\ cache[CacheKey(MODEL_PATH)] = NoHandle
        /\ forecaster[s] = NoHandle

\* C4 as stated: the load error is raised once and the artifact is not read
\* again by any later step of the process.
C4_NoLaterRead ==
    /\ loadErrors <= 1
    /\ fs[MODEL_PATH] = Missing => reads[MODEL_PATH] <= 1

\* C4, amended: a failed load ends the script run it is raised in (no input
\* is collected, predict is not called, nothing but the error is shown) and
\* nothing goes on past the constructor while the file cannot be loaded; the
\* error is raised once per run, and every later run reads the file again.
C4_FailedLoadHaltsRun ==
    /\ \A s \in Sessions :
          pc[s] = "halted" =>
              /\ input_data[s] = NoRow
              /\ predicts[s] = 0
              /\ result[s] = NoResult
              /\ forecaster[s] = NoHandle
              /\ shown[s] = {"exception"}
    /\ fs[MODEL_PATH] = Missing =>
          /\ \A s \in Sessions : pc[s] \in {"idle", "lookup", "acquire", "recheck", "load", "halted"}
          /\ log = {}
          /\ loadErrors = reads[MODEL_PATH]
          /\ \A s \in Sessions : \A t \in Sessions \ {s} :
                reads[MODEL_PATH] = PastLoad(s) + PastLoad(t)

C4_Witness ==
    \E s \in Sessions :
        /\ pc[s] = "halted"
        /\ runs[s] >= 2
        /\ loadErrors >= 2

\* C5: with sessions running main concurrently, load_model returns at most
\* one model object for MODEL_PATH and reads the loadable file at most once,
\* and all sessions that hold a model hold the same one.
C5_AtMostOneLoad ==
    /\ Loads <= 1
    /\ fs[MODEL_PATH] # Missing => reads[MODEL_PATH] <= 1
    /\ \A s, t \in Sessions :
          (forecaster[s] # NoHandle /\ forecaster[t] # NoHandle) => forecaster[s] = forecaster[t]

\* Two sessions both missed before any load had finished: one has loaded, the
\* other holds the lock and finds the value on its second read.
C5_Witness ==
    \E s, t \in Sessions :
        /\ s # t
        /\ pc[s] = "recheck"
        /\ runs[s] = 1
        /\ runs[t] = 1
        /\ forecaster[t] # NoHandle
        /\ cache[CacheKey(MODEL_PATH)] = forecaster[t]

\* The inference of a logged call returned a first row with two finite outputs.
TwoFinite(e) ==
    LET p == Inference(e.model.artifact, e.row) IN
    /\ p.kind = "array"
    /\ Len(p.rows) >= 1
    /\ Len(p.rows[1]) >= 2
    /\ p.rows[1][1].cls = "finite"
    /\ p.rows[1][2].cls = "finite"

C7_InferenceErrorShown ==
    \A s \in Sessions :
        result[s].status = "raised" =>
            /\ pc[s] = "crashed"
            /\ "exception" \in shown[s]
            /\ "success" \notin shown[s]
            /\ "metrics" \notin shown[s]
            /\ cache[CacheKey(MODEL_PATH)] = forecaster[s]
            /\ forecaster[s] # NoHandle
            /\ runs[s] < MaxRuns => ENABLED ClickRun(s)

\* A session whose predict raised in one run has predict called again in a
\* later run, on the same model object.
C7_Witness ==
    \E s \in Sessions : \E e1, e2 \in log :
        /\ e1.by = s
        /\ e2.by = s
        /\ e1.out.status = "raised"
        /\ e2.run > e1.run
        /\ e2.model = e1.model
        /\ result[s] = e2.out

\* n is an integer nearest to v / Scale, and the even one when two are.
NearestTiesEven(v, n) ==
    /\ 2 * (Scale * n - v) <= Scale
    /\ 2 * (v - Scale * n) <= Scale
    /\ (2 * (Scale * n - v) = Scale \/ 2 * (v - Scale * n) = Scale) => n % 2 = 0

\* C8: of a call that returned, unitsSold is output 0 and demandForecast is
\* output 1 of the first row, each rounded to the nearest integer with ties
\* to even; 0.5, 1.5 and 2.5 give 0, 2 and 2.
C8_RoundHalfEven ==
    \A e \in log :
        e.out.status = "ok" =>
            LET o == Inference(e.model.artifact, e.row).rows[1] IN
            /\ NearestTiesEven(o[1].q, e.out.units)
            /\ NearestTiesEven(o[2].q, e.out.demand)
            /\ 2 * o[1].q = Scale => e.out.units = 0
            /\ 2 * o[1].q = 3 * Scale => e.out.units = 2
            /\ 2 * o[1].q = 5 * Scale => e.out.units = 2
            /\ 2 * o[2].q = Scale => e.out.demand = 0
            /\ 2 * o[2].q = 3 * Scale => e.out.demand = 2
            /\ 2 * o[2].q = 5 * Scale => e.out.demand = 2

\* All three ties have been rounded, and a value that is no tie.
C8_Witness ==
    /\ \E e \in log : e.out.status = "ok"
          /\ 2 * Inference(e.model.artifact, e.row).rows[1][1].q = Scale
    /\ \E e \in log : e.out.status = "ok"
          /\ 2 * Inference(e.model.artifact, e.row).rows[1][1].q = 3 * Scale
    /\ \E e \in log : e.out.status = "ok"
          /\ 2 * Inference(e.model.artifact, e.row).rows[1][1].q = 5 * Scale
    /\ \E e \in log : e.out.status = "ok"
          /\ Inference(e.model.artifact, e.row).rows[1][2].q % Scale = 1

C10_PredictOnlyOnRun ==
    \A s \in Sessions :
        /\ predicts[s] <= 1
        /\ predicts[s] = 1 =>
              /\ clicked[s]
              /\ forecaster[s] # NoHandle
              /\ forecaster[s] \in handed[MODEL_PATH]
              /\ input_data[s] = widgets[s]
              /\ result[s].row = input_data[s]
              /\ \E e \in log : e.by = s /\ e.run = runs[s] /\ e.out = result[s]
        /\ ~clicked[s] =>
              /\ predicts[s] = 0
              /\ result[s] = NoResult
              /\ shown[s] \cap {"success", "metrics"} = {}
        /\ shown[s] \cap {"success", "metrics"} # {} =>
              /\ predicts[s] = 1
              /\ result[s].status = "ok"
        /\ \A e1, e2 \in log : (e1.by = s /\ e2.by = s /\ e1.run = e2.run) => e1 = e2

\* A run without the button, right after a run that showed a forecast.
C10_Witness ==
    \E s \in Sessions : \E e \in log :
        /\ e.by = s
        /\ e.out.status = "ok"
        /\ e.run = runs[s] - 1
        /\ ~clicked[s]
        /\ pc[s] = "done"

====
